---- MODULE Spec2Model ----
(***************************************************************************)
(* Conway's Game of Life (src/main.py): the GameOfLife widget's grid, the  *)
(* metrics history and plot, the timer and the speed slider, and the       *)
(* handlers that change them.                                              *)
(***************************************************************************)
EXTENDS Integers, Sequences, FiniteSets, TLC

\* ------------------------------------------------------------------ bounds
\* grid_size of the model (the program is started with grid_size=50)
GridSize == 4
\* update_state fires only while generation < MaxGen
MaxGen == 3

\* ------------------------------------------------------- program constants
cell_size == 10
x_offset == 20
y_offset == 60
SliderMin == 10
SliderInit == 300

VARIABLES grid, grid_widget_grid, generation, live_history, plot,
          timer_active, timer_interval, speed_slider, last

vars == <<grid, grid_widget_grid, generation, live_history, plot,
          timer_active, timer_interval, speed_slider, last>>

\* ------------------------------------------------------------ grid helpers
Idx == 0 .. (GridSize - 1)

Cells == Idx \X Idx

\* an array of shape (grid_size, grid_size), indexed [row][column]
GridOf(alive) == [r \in Idx |-> [c \in Idx |-> IF <<c, r>> \in alive THEN 1 ELSE 0]]

ZeroGrid == GridOf({})

\* np.sum(self.grid)
RECURSIVE SumSeq(_)
SumSeq(s) == IF s = <<>> THEN 0 ELSE Head(s) + SumSeq(Tail(s))

RowSum(row) == SumSeq([k \in 1 .. GridSize |-> row[k - 1]])

\* np.sum(self.grid[0]): the first row only
np_sum_first_row(g) == RowSum(g[0])

np_sum(g) == SumSeq([k \in 1 .. GridSize |-> RowSum(g[k - 1])])

\* np_roll without the wrap-around: cells shifted in from outside are 0
np_roll_nowrap(a, shift, axis) ==
    IF axis = 0
    THEN [r \in Idx |-> IF (r - shift) \in Idx THEN a[r - shift]
                                               ELSE [c \in Idx |-> 0]]
    ELSE [r \in Idx |-> [c \in Idx |->
            IF (c - shift) \in Idx THEN a[r][c - shift] ELSE 0]]

\* np.roll(a, shift, axis): element at index k moves to index k + shift,
\* wrapping around
np_roll(a, shift, axis) ==
    IF axis = 0
    THEN [r \in Idx |-> a[(r - shift) % GridSize]]
    ELSE [r \in Idx |-> [c \in Idx |-> a[r][(c - shift) % GridSize]]]

\* the (i, j) pairs without the filter "if (i != 0 or j != 0)"
Shifts_with_centre == << <<-1, -1>>, <<-1, 0>>, <<-1, 1>>, <<0, -1>>, <<0, 0>>,
                         <<0, 1>>, <<1, -1>>, <<1, 0>>, <<1, 1>> >>

\* the (i, j) pairs of the generator in update_state, in iteration order
Shifts == << <<-1, -1>>, <<-1, 0>>, <<-1, 1>>, <<0, -1>>, <<0, 1>>,
             <<1, -1>>, <<1, 0>>, <<1, 1>> >>

RECURSIVE SumRolled(_, _)
SumRolled(g, k) ==
    IF k = 0 THEN [r \in Idx |-> [c \in Idx |-> 0]]
    ELSE LET rest == SumRolled(g, k - 1)
             cur  == np_roll(np_roll(g, Shifts[k][1], 0), Shifts[k][2], 1)
         IN [r \in Idx |-> [c \in Idx |-> rest[r][c] + cur[r][c]]]

\* neighbors = sum(np.roll(np.roll(self.grid, i, 0), j, 1) for ... )
neighbors(g) == SumRolled(g, Len(Shifts))

\* new_grid written cell by cell into the grid being read, in row-major order
RECURSIVE new_grid_in_place_from(_, _)
new_grid_in_place_from(g, k) ==
    IF k = GridSize * GridSize THEN g
    ELSE LET r  == k \div GridSize
             c  == k % GridSize
             nb == neighbors(g)[r][c]
             v  == IF \/ (g[r][c] = 1 /\ (nb = 2 \/ nb = 3))
                      \/ (g[r][c] = 0 /\ nb = 3)
                   THEN 1 ELSE 0
         IN new_grid_in_place_from([g EXCEPT ![r][c] = v], k + 1)

new_grid_in_place(g) == new_grid_in_place_from(g, 0)

\* new_grid with birth on up to 3 neighbours instead of exactly 3
new_grid_birth_le3(g) ==
    LET nb == neighbors(g)
    IN [r \in Idx |-> [c \in Idx |->
          IF \/ (g[r][c] = 1 /\ (nb[r][c] = 2 \/ nb[r][c] = 3))
             \/ (g[r][c] = 0 /\ nb[r][c] <= 3)
          THEN 1 ELSE 0]]

\* new_grid without death by overcrowding: survival on 2 or more neighbours
new_grid_no_overcrowding(g) ==
    LET nb == neighbors(g)
    IN [r \in Idx |-> [c \in Idx |->
          IF \/ (g[r][c] = 1 /\ nb[r][c] >= 2)
             \/ (g[r][c] = 0 /\ nb[r][c] = 3)
          THEN 1 ELSE 0]]

\* new_grid with survival on exactly 2 neighbours only
new_grid_survive_2_only(g) ==
    LET nb == neighbors(g)
    IN [r \in Idx |-> [c \in Idx |->
          IF \/ (g[r][c] = 1 /\ nb[r][c] = 2)
             \/ (g[r][c] = 0 /\ nb[r][c] = 3)
          THEN 1 ELSE 0]]

\* new_grid with survival on up to 3 neighbours
new_grid_survive_le3(g) ==
    LET nb == neighbors(g)
    IN [r \in Idx |-> [c \in Idx |->
          IF \/ (g[r][c] = 1 /\ nb[r][c] <= 3)
             \/ (g[r][c] = 0 /\ nb[r][c] = 3)
          THEN 1 ELSE 0]]

\* new_grid ... .astype(int)
new_grid(g) ==
    LET nb == neighbors(g)
    IN [r \in Idx |-> [c \in Idx |->
          IF \/ (g[r][c] = 1 /\ (nb[r][c] = 2 \/ nb[r][c] = 3))
             \/ (g[r][c] = 0 /\ nb[r][c] = 3)
          THEN 1 ELSE 0]]

\* ----------------------------------------------------------------- metrics
\* occupancy with the divisor grid_size instead of grid_size ** 2
occupancy_by_side(lh) == [k \in 1 .. Len(lh) |-> [num |-> lh[k] * 100, den |-> GridSize]]

\* occupancy = [(v / grid_size ** 2) * 100 for v in live_history], kept as
\* the exact fraction num/den
occupancy(lh) == [k \in 1 .. Len(lh) |-> [num |-> lh[k] * 100, den |-> GridSize * GridSize]]

\* growth without the leading 0
growth_no_first(lh) == [k \in 1 .. (Len(lh) - 1) |-> lh[k + 1] - lh[k]]

\* growth = [0] + [live_history[i] - live_history[i-1] for i in range(1, len)]
growth(lh) == <<0>> \o [k \in 1 .. (Len(lh) - 1) |-> lh[k + 1] - lh[k]]

\* generations = list(range(1, len(live_history) + 1))
generations(lh) == [k \in 1 .. Len(lh) |-> k]

\* the lines drawn on the axes by update_plot
PlotOf(lh) == [generations |-> generations(lh), live |-> lh,
               occupancy |-> occupancy(lh), growth |-> growth(lh)]

EmptyPlot == [generations |-> <<>>, live |-> <<>>, occupancy |-> <<>>, growth |-> <<>>]

\* ------------------------------------------------------------------ inputs
\* cells a random draw may make alive: a cluster across the wrap-around
\* corner of the grid
SeedCells == {<<0, 0>>, <<GridSize - 1, 0>>, <<0, GridSize - 1>>}

\* outcomes of (np.random.rand(grid_size, grid_size) < 0.2).astype(int)
RandomGrids == {GridOf(s) : s \in SUBSET SeedCells}

\* pixel positions (event.x(), event.y()) of mouse presses: the first pixel
\* of cell (0,1), the last pixel of cell (1,1), and a position just outside
\* the grid on each of its four sides
Presses ==
    { <<x_offset, y_offset + cell_size>>,
      <<x_offset + 2 * cell_size - 1, y_offset + 2 * cell_size - 1>>,
      <<x_offset - 1, y_offset + cell_size>>,
      <<x_offset + GridSize * cell_size, y_offset + cell_size>>,
      <<x_offset, y_offset - 1>>,
      <<x_offset + cell_size, y_offset + GridSize * cell_size>> }

\* positions the user can move the speed slider to
SliderValues == {SliderMin, SliderInit}

\* the handler that ran last: its name, the grid it started from, the cell
\* a mouse press was mapped to, and the exception it raised (no handler has
\* a raise statement or an unguarded index, so none ever does)
Last(op, pre, x, y) == [op |-> op, pre |-> pre, x |-> x, y |-> y, raised |-> "none"]

\* ------------------------------------------------------------------- state
Init ==
    /\ grid \in RandomGrids
    /\ grid_widget_grid = grid
    /\ generation = 0
    /\ live_history = <<>>
    /\ plot = EmptyPlot
    /\ timer_active = FALSE
    /\ timer_interval = 0
    /\ speed_slider = SliderInit
    /\ last = Last("__init__", <<>>, -1, -1)

\* update_plot on a grid g with history lh and counter gen
update_plot(g, lh, gen) ==
    /\ generation' = gen + 1
    /\ live_history' = Append(lh, np_sum(g))
    /\ plot' = PlotOf(Append(lh, np_sum(g)))

\* update_state that records the live count before writing the new grid
update_state_stale ==
    /\ timer_active
    /\ generation < MaxGen
    /\ grid' = new_grid(grid)
    /\ grid_widget_grid' = new_grid(grid)
    /\ update_plot(grid, live_history, generation)
    /\ last' = Last("update_state", grid, -1, -1)
    /\ UNCHANGED <<timer_active, timer_interval, speed_slider>>

\* timer timeout -> update_state
update_state ==
    /\ timer_active
    /\ generation < MaxGen
    /\ grid' = new_grid(grid)
    /\ grid_widget_grid' = new_grid(grid)
    /\ update_plot(new_grid(grid), live_history, generation)
    /\ last' = Last("update_state", grid, -1, -1)
    /\ UNCHANGED <<timer_active, timer_interval, speed_slider>>

toggle_timer ==
    /\ IF timer_active
       THEN /\ timer_active' = FALSE
            /\ UNCHANGED timer_interval
       ELSE /\ timer_active' = TRUE
            /\ timer_interval' = speed_slider
    /\ last' = Last("toggle_timer", <<>>, -1, -1)
    /\ UNCHANGED <<grid, grid_widget_grid, generation, live_history, plot, speed_slider>>

\* clear_grid without "self.generation = 0"
clear_grid_keeps_generation ==
    /\ grid' = ZeroGrid
    /\ grid_widget_grid' = ZeroGrid
    /\ update_plot(ZeroGrid, <<>>, generation)
    /\ last' = Last("clear_grid", grid, -1, -1)
    /\ UNCHANGED <<timer_active, timer_interval, speed_slider>>

\* clear_grid with "self.grid[0] = 0": only the first row is cleared
clear_grid_first_row ==
    /\ grid' = [grid EXCEPT ![0] = [c \in Idx |-> 0]]
    /\ grid_widget_grid' = [grid EXCEPT ![0] = [c \in Idx |-> 0]]
    /\ update_plot([grid EXCEPT ![0] = [c \in Idx |-> 0]], <<>>, 0)
    /\ last' = Last("clear_grid", grid, -1, -1)
    /\ UNCHANGED <<timer_active, timer_interval, speed_slider>>

\* clear_grid that stops the timer first
clear_grid_stops_timer ==
    /\ grid' = ZeroGrid
    /\ grid_widget_grid' = ZeroGrid
    /\ update_plot(ZeroGrid, <<>>, 0)
    /\ timer_active' = FALSE
    /\ last' = Last("clear_grid", grid, -1, -1)
    /\ UNCHANGED <<timer_interval, speed_slider>>

clear_grid ==
    /\ grid' = ZeroGrid
    /\ grid_widget_grid' = ZeroGrid
    /\ update_plot(ZeroGrid, <<>>, 0)
    /\ last' = Last("clear_grid", grid, -1, -1)
    /\ UNCHANGED <<timer_active, timer_interval, speed_slider>>

\* randomize_grid with "self.grid = ...": the attribute is rebound to a new
\* array and the widget keeps the old one
randomize_grid_rebind ==
    \E g \in RandomGrids :
        /\ grid' = g
        /\ update_plot(g, <<>>, 0)
        /\ last' = Last("randomize_grid", <<>>, -1, -1)
        /\ UNCHANGED <<grid_widget_grid, timer_active, timer_interval, speed_slider>>

randomize_grid ==
    \E g \in RandomGrids :
        /\ grid' = g
        /\ grid_widget_grid' = g
        /\ update_plot(g, <<>>, 0)
        /\ last' = Last("randomize_grid", <<>>, -1, -1)
        /\ UNCHANGED <<timer_active, timer_interval, speed_slider>>

\* change_speed without the isActive() check
change_speed_always_sets ==
    \E value \in SliderValues \ {speed_slider} :
        /\ speed_slider' = value
        /\ timer_interval' = value
        /\ last' = Last("change_speed", <<>>, -1, -1)
        /\ UNCHANGED <<grid, grid_widget_grid, generation, live_history, plot, timer_active>>

\* the slider is moved to a new value; valueChanged -> change_speed(value)
change_speed ==
    \E value \in SliderValues \ {speed_slider} :
        /\ speed_slider' = value
        /\ timer_interval' = IF timer_active THEN value ELSE timer_interval
        /\ last' = Last("change_speed", <<>>, -1, -1)
        /\ UNCHANGED <<grid, grid_widget_grid, generation, live_history, plot, timer_active>>

\* the toggle with the indices swapped: self.grid[x][y] = 1 - self.grid[x][y]
toggled_swapped(g, x, y) == [g EXCEPT ![x][y] = 1 - g[x][y]]

\* the toggle as a bitwise not: self.grid[y][x] = ~self.grid[y][x]
toggled_invert(g, x, y) == [g EXCEPT ![y][x] = (-1) - g[y][x]]

\* self.grid[y][x] = 1 - self.grid[y][x]
toggled(g, x, y) == [g EXCEPT ![y][x] = 1 - g[y][x]]

\* mousePressEvent without the range check, the indices wrapping around
mousePressEvent_unguarded ==
    \E event \in Presses :
        LET x == (event[1] - x_offset) \div cell_size
            y == (event[2] - y_offset) \div cell_size
        IN /\ grid' = toggled(grid, x % GridSize, y % GridSize)
           /\ grid_widget_grid' = toggled(grid, x % GridSize, y % GridSize)
           /\ last' = Last("mousePressEvent", grid, x, y)
           /\ UNCHANGED <<generation, live_history, plot,
                          timer_active, timer_interval, speed_slider>>

\* the handler's body for a press at pixel event = <<event.x(), event.y()>>
mousePress(event) ==
    LET x == (event[1] - x_offset) \div cell_size
        y == (event[2] - y_offset) \div cell_size
    IN /\ IF 0 <= x /\ x < GridSize /\ 0 <= y /\ y < GridSize
          THEN /\ grid' = toggled(grid, x, y)
               /\ grid_widget_grid' = toggled(grid, x, y)
          ELSE UNCHANGED <<grid, grid_widget_grid>>
       /\ last' = Last("mousePressEvent", grid, x, y)
       /\ UNCHANGED <<generation, live_history, plot,
                      timer_active, timer_interval, speed_slider>>

mousePressEvent == \E event \in Presses : mousePress(event)

Next ==
    \/ update_state
    \/ toggle_timer
    \/ clear_grid
    \/ randomize_grid
    \/ change_speed
    \/ mousePressEvent

Spec == Init /\ [][Next]_vars

\* ---------------------------------------------------- runs from a pattern
\* the horizontal triplet centred on cell c, wrapping around the edges
HBlinker(c) ==
    GridOf({<<(c[1] - 1) % GridSize, c[2]>>, c, <<(c[1] + 1) % GridSize, c[2]>>})

\* the vertical triplet centred on cell c
VBlinker(c) ==
    GridOf({<<c[1], (c[2] - 1) % GridSize>>, c, <<c[1], (c[2] + 1) % GridSize>>})

\* the 3x3 all-alive block centred on cell c
Block3(c) ==
    GridOf({<<(c[1] + dx) % GridSize, (c[2] + dy) % GridSize>> :
               dx \in {-1, 0, 1}, dy \in {-1, 0, 1}})

\* outcomes of the random draw of __init__ that are one of these patterns
PatternGrids == {HBlinker(c) : c \in Cells} \cup {Block3(c) : c \in Cells}

\* the program started on a pattern
InitPatterns ==
    /\ grid \in PatternGrids
    /\ grid_widget_grid = grid
    /\ generation = 0
    /\ live_history = <<>>
    /\ plot = EmptyPlot
    /\ timer_active = FALSE
    /\ timer_interval = 0
    /\ speed_slider = SliderInit
    /\ last = Last("__init__", <<>>, -1, -1)

\* the user only starts and stops the timer
NextPatterns ==
    \/ update_state
    \/ toggle_timer

SpecPatterns == InitPatterns /\ [][NextPatterns]_vars

\* ------------------------------------------- the 2x2 block drawn by hand
\* the cells of the 2x2 block
BlockCells == {<<1, 1>>, <<1, 2>>, <<2, 1>>, <<2, 2>>}

BlockGrid == GridOf(BlockCells)

\* presses on the middle pixel of each cell of the block
BlockPresses ==
    { <<x_offset + c[1] * cell_size + cell_size \div 2,
        y_offset + c[2] * cell_size + cell_size \div 2>> :
          c \in BlockCells }

\* the program started on the all-dead outcome of the random draw
InitBlock ==
    /\ grid = ZeroGrid
    /\ grid_widget_grid = grid
    /\ generation = 0
    /\ live_history = <<>>
    /\ plot = EmptyPlot
    /\ timer_active = FALSE
    /\ timer_interval = 0
    /\ speed_slider = SliderInit
    /\ last = Last("__init__", <<>>, -1, -1)

mousePressBlock == \E event \in BlockPresses : mousePress(event)

\* the user presses cells of the block and starts and stops the timer
NextBlock ==
    \/ mousePressBlock
    \/ update_state
    \/ toggle_timer

SpecBlock == InitBlock /\ [][NextBlock]_vars

\* ------------------------------------------------- vocabulary of the claims
AllDead(g) == \A c \in Cells : g[c[2]][c[1]] = 0

LiveCount(g) == Cardinality({c \in Cells : g[c[2]][c[1]] = 1})

InRange(x, y) == x \in Idx /\ y \in Idx

\* alive states at the 8 toroidal neighbour positions of (x, y)
ToroidalCount(g, x, y) ==
      g[(y - 1) % GridSize][(x - 1) % GridSize]
    + g[(y - 1) % GridSize][x]
    + g[(y - 1) % GridSize][(x + 1) % GridSize]
    + g[y][(x - 1) % GridSize]
    + g[y][(x + 1) % GridSize]
    + g[(y + 1) % GridSize][(x - 1) % GridSize]
    + g[(y + 1) % GridSize][x]
    + g[(y + 1) % GridSize][(x + 1) % GridSize]

\* the Game-of-Life rule: survival on 2 or 3 neighbours, birth on exactly 3
LivesOn(g, x, y) ==
    \/ g[y][x] = 1 /\ ToroidalCount(g, x, y) \in {2, 3}
    \/ g[y][x] = 0 /\ ToroidalCount(g, x, y) = 3

Advanced == last.op = "update_state"

\* ------------------------------------------------------------------ claims

\* C1: one advance yields a grid of the same dimensions in which a cell is
\* alive exactly when, in the grid before the advance, it was alive with 2 or
\* 3 alive toroidal neighbours or dead with exactly 3; every neighbour sum
\* is taken on the grid before the advance.
C1_AdvanceRule ==
    Advanced =>
        /\ DOMAIN grid = Idx
        /\ \A r \in Idx : DOMAIN grid[r] = Idx
        /\ \A c \in Cells :
              /\ grid[c[2]][c[1]] \in {0, 1}
              /\ grid[c[2]][c[1]] = 1 <=> LivesOn(last.pre, c[1], c[2])

\* an advance in which a cell was born, a cell survived and a cell died of
\* overcrowding
C1_Witness ==
    /\ Advanced
    /\ \E c \in Cells : last.pre[c[2]][c[1]] = 0 /\ grid[c[2]][c[1]] = 1
    /\ \E c \in Cells : last.pre[c[2]][c[1]] = 1 /\ grid[c[2]][c[1]] = 1
    /\ \E c \in Cells : /\ last.pre[c[2]][c[1]] = 1
                         /\ ToroidalCount(last.pre, c[1], c[2]) > 3
                         /\ grid[c[2]][c[1]] = 0

\* C2: the neighbour count an advance uses for cell (x,y) is the sum of the
\* alive states at the 8 positions ((x+dx) mod width, (y+dy) mod height); it
\* is in 0..8; the count of a cell in column 0 includes the cell in column
\* width-1 of its row, and the count of a cell in row 0 the cell in row
\* height-1 of its column.
C2_NeighborCount ==
    Advanced =>
        LET nb == neighbors(last.pre)
        IN \A c \in Cells :
              /\ nb[c[2]][c[1]] = ToroidalCount(last.pre, c[1], c[2])
              /\ nb[c[2]][c[1]] \in 0 .. 8
              /\ nb[c[2]][0] >= last.pre[c[2]][GridSize - 1]
              /\ nb[0][c[1]] >= last.pre[GridSize - 1][c[1]]

\* an advance from a grid where a column-0 cell had an alive neighbour in
\* column width-1 and a row-0 cell an alive neighbour in row height-1
C2_Witness ==
    /\ Advanced
    /\ \E y \in Idx : /\ last.pre[y][GridSize - 1] = 1
                       /\ neighbors(last.pre)[y][0] >= 1
    /\ \E x \in Idx : /\ last.pre[GridSize - 1][x] = 1
                       /\ neighbors(last.pre)[0][x] >= 1
    /\ \E c \in Cells : neighbors(last.pre)[c[2]][c[1]] >= 4

\* C3: after clear() or randomize() the metrics history is empty: live_history
\* has length 0, the generation count is 0 and the derived series are empty.
C3_ResetEmptiesHistory ==
    last.op \in {"clear_grid", "randomize_grid"} =>
        /\ Len(live_history) = 0
        /\ generation = 0
        /\ plot.occupancy = <<>>
        /\ plot.growth = <<>>

\* C4: each advance appends exactly one entry to live_history, the number of
\* alive cells of the grid the advance produced; earlier entries are
\* unchanged.
C4_AdvanceAppendsOne ==
    [][last'.op = "update_state" =>
          live_history' = Append(live_history, LiveCount(grid'))]_vars

\* an advance that changed the live count, after an earlier record
C4_Witness ==
    /\ Advanced
    /\ Len(live_history) >= 2
    /\ live_history[Len(live_history)] = LiveCount(grid)
    /\ LiveCount(grid) # LiveCount(last.pre)
    /\ LiveCount(grid) > 0

\* C5: in every reachable state the generation counter equals
\* len(live_history).
C5_GenerationIsLength == generation = Len(live_history)

\* the third recorded generation, reached by an advance
C5_Witness ==
    /\ Advanced
    /\ generation = 3
    /\ Len(live_history) = 3

\* C6: the plotted live, occupancy and growth series have the same length
\* and are aligned to generations 1..n; when non-empty growth[0] is 0 and
\* growth[i] = live_history[i] - live_history[i-1] for i >= 1.
C6_SeriesAligned ==
    /\ Len(plot.live) = Len(plot.occupancy)
    /\ Len(plot.live) = Len(plot.growth)
    /\ Len(plot.live) = Len(plot.generations)
    /\ plot.live = live_history
    /\ \A k \in 1 .. Len(plot.generations) : plot.generations[k] = k
    /\ Len(plot.growth) > 0 => plot.growth[1] = 0
    /\ \A k \in 2 .. Len(live_history) :
          plot.growth[k] = live_history[k] - live_history[k - 1]

\* a plot of three generations with a positive and a negative growth
C6_Witness ==
    /\ Advanced
    /\ Len(plot.growth) = 3
    /\ plot.growth[2] > 0
    /\ plot.growth[3] < 0

\* C7: a toggle at in-range (x,y) flips exactly cell (x,y), leaves every other
\* cell, live_history and the generation counter unchanged; toggling the same
\* cell again restores the grid.
C7_ToggleFlipsOneCell ==
    [][(last'.op = "mousePressEvent" /\ InRange(last'.x, last'.y)) =>
          /\ grid'[last'.y][last'.x] = 1 - grid[last'.y][last'.x]
          /\ \A c \in Cells \ {<<last'.x, last'.y>>} :
                grid'[c[2]][c[1]] = grid[c[2]][c[1]]
          /\ live_history' = live_history
          /\ generation' = generation
          /\ toggled(grid', last'.x, last'.y) = grid]_vars

\* a toggle that turns the alive cell (0,1) off, with a recorded history
C7_Witness ==
    /\ last.op = "mousePressEvent"
    /\ last.x = 0 /\ last.y = 1
    /\ last.pre[1][0] = 1
    /\ grid[1][0] = 0
    /\ grid[0][1] = 0
    /\ generation >= 2

C9_ClearKillsAll ==
    last.op = "clear_grid" =>
        /\ \A c \in Cells : grid[c[2]][c[1]] = 0
        /\ LiveCount(grid) = 0
        /\ live_history[Len(live_history)] = 0

\* a clear of a grid that had alive cells outside its first row
C9_Witness ==
    /\ last.op = "clear_grid"
    /\ \E c \in Cells : c[2] > 0 /\ last.pre[c[2]][c[1]] = 1
    /\ AllDead(grid)

\* C10: advancing an all-dead grid yields an all-dead grid, and so does
\* advancing it again; an all-dead grid stops being all-dead only through a
\* toggle or a randomize.
C10_NoSpontaneousGeneration ==
    [][/\ (last'.op = "update_state" /\ AllDead(grid)) =>
             (AllDead(grid') /\ AllDead(new_grid(grid')))
       /\ (AllDead(grid) /\ ~AllDead(grid')) =>
             last'.op \in {"mousePressEvent", "randomize_grid"}]_vars

\* the second of two advances of an all-dead grid after a clear
C10_Witness ==
    /\ Advanced
    /\ AllDead(last.pre)
    /\ AllDead(grid)
    /\ live_history = <<0, 0, 0>>

\* C11: the horizontal 3-cell blinker on the toroidal grid returns to its
\* original configuration after exactly 2 advances: one advance turns it into
\* the vertical triplet on the same centre, which differs from it, and the
\* next advance turns that back into the horizontal triplet.
C11_BlinkerPeriodTwo ==
    \A c \in Cells :
        /\ (Advanced /\ last.pre = HBlinker(c)) =>
              /\ grid = VBlinker(c)
              /\ grid # HBlinker(c)
              /\ new_grid(grid) = HBlinker(c)
        /\ (Advanced /\ last.pre = VBlinker(c)) => grid = HBlinker(c)

\* the second advance of a blinker that lies across the left and right edges
C11_Witness ==
    /\ Advanced
    /\ generation = 2
    /\ \E y \in Idx : /\ last.pre = VBlinker(<<0, y>>)
                       /\ grid = HBlinker(<<0, y>>)
                       /\ grid[y][GridSize - 1] = 1
    /\ LiveCount(grid) = 3

\* C12: a 3x3 all-alive block, advanced once, leaves the centre cell of the
\* block alive.
C12_BlockCentreSurvives ==
    \A c \in Cells :
        (Advanced /\ last.pre = Block3(c)) => grid[c[2]][c[1]] = 1

\* C12 as amended: a 3x3 all-alive block, advanced once, leaves the centre
\* cell of the block dead: it has 8 alive neighbours.
C12_BlockCentreDies ==
    \A c \in Cells :
        (Advanced /\ last.pre = Block3(c)) =>
            /\ ToroidalCount(last.pre, c[1], c[2]) = 8
            /\ grid[c[2]][c[1]] = 0

\* the advance of the 3x3 block centred on (1,1)
C12_Witness ==
    /\ Advanced
    /\ last.pre = Block3(<<1, 1>>)
    /\ LiveCount(last.pre) = 9
    /\ grid[1][1] = 0

\* C13: from the all-dead 4x4 grid, toggle_cell(1,1), (1,2), (2,1), (2,2) in
\* any order give the 2x2 block; one advance leaves exactly those four cells
\* alive and all others dead, and every further advance leaves the grid
\* unchanged.
C13_BlockStillLife ==
    /\ (generation = 0 /\ LiveCount(grid) = 4) => grid = BlockGrid
    /\ (Advanced /\ last.pre = BlockGrid) =>
          /\ \A c \in Cells : grid[c[2]][c[1]] = 1 <=> c \in BlockCells
          /\ new_grid(grid) = grid
          /\ live_history[Len(live_history)] = 4

\* the second advance of the block, the first one having started from the
\* four toggles
C13_Witness ==
    /\ Advanced
    /\ last.pre = BlockGrid
    /\ grid = BlockGrid
    /\ live_history = <<4, 4>>

\* C14: any alive cell whose 8 toroidal neighbour positions are all dead is
\* dead after one advance.
C14_LonelyCellDies ==
    Advanced =>
        \A c \in Cells :
            (last.pre[c[2]][c[1]] = 1 /\ ToroidalCount(last.pre, c[1], c[2]) = 0)
                => grid[c[2]][c[1]] = 0

\* an advance of a grid with an alive cell that had no alive neighbour
C14_Witness ==
    /\ Advanced
    /\ \E c \in Cells : /\ last.pre[c[2]][c[1]] = 1
                         /\ ToroidalCount(last.pre, c[1], c[2]) = 0
                         /\ grid[c[2]][c[1]] = 0

\* the number of cells of the grid, from its shape
CellCount == Cardinality(DOMAIN grid) * Cardinality(DOMAIN grid[0])

C16_WidgetSeesGrid == grid_widget_grid = grid

\* a randomize that changed the grid while the timer runs
C16_Witness ==
    /\ last.op = "randomize_grid"
    /\ ~AllDead(grid)
    /\ grid_widget_grid = grid
    /\ timer_active

HasLast == Len(live_history) > 0

\* the last entry of live_history is the live count of the grid
Synced == HasLast /\ live_history[Len(live_history)] = LiveCount(grid)

Recording == {"update_state", "clear_grid", "randomize_grid"}

\* C17: immediately after advance, clear or randomize the last entry of
\* live_history equals the live count of the grid; only toggle_cell can make
\* them differ, and the difference persists until the next advance, clear or
\* randomize.
C17_DifferencePersists ==
    [][LET before == Synced
           after  == Synced'
       IN /\ last'.op \in Recording => after
          /\ (before /\ ~after) => last'.op = "mousePressEvent"
          /\ (HasLast /\ ~before /\ after) => last'.op \in Recording]_vars

\* C17 as amended: immediately after advance, clear or randomize the last
\* entry equals the live count; only toggle_cell can make them differ, and
\* the difference persists until the next advance, clear, randomize or
\* toggle_cell; the growth recorded by the next advance is measured from the
\* last entry.
C17_DifferenceUntilRecordOrToggle ==
    [][LET before == Synced
           after  == Synced'
       IN /\ last'.op \in Recording => after
          /\ (before /\ ~after) => last'.op = "mousePressEvent"
          /\ (HasLast /\ ~before /\ after) =>
                last'.op \in Recording \cup {"mousePressEvent"}
          /\ (HasLast /\ last'.op = "update_state") =>
                plot'.growth[Len(plot'.growth)]
                   = LiveCount(grid') - live_history[Len(live_history)]]_vars

\* a difference left by a toggle that is still there after the slider moved
C17_Witness ==
    /\ last.op = "change_speed"
    /\ HasLast
    /\ ~Synced

\* C18: every cell of the grid is 0 or 1, the grid keeps its dimensions, and
\* every entry of live_history is between 0 and width*height.
C18_CellsAndCountsInRange ==
    /\ DOMAIN grid = Idx
    /\ \A r \in Idx : DOMAIN grid[r] = Idx
    /\ \A c \in Cells : grid[c[2]][c[1]] \in {0, 1}
    /\ \A k \in 1 .. Len(live_history) :
          live_history[k] \in 0 .. (GridSize * GridSize)

\* a toggle after three recorded generations, with alive cells
C18_Witness ==
    /\ last.op = "mousePressEvent"
    /\ InRange(last.x, last.y)
    /\ Len(live_history) = 3
    /\ live_history[3] > 0

\* C19: whenever the timer is active its interval is the slider value:
\* starting the timer uses the slider value, a slider change while active
\* updates the interval, a slider change while inactive leaves the timer as
\* it is; an advance happens only while the timer is active.
C19_IntervalFollowsSlider ==
    [][/\ timer_active => timer_interval = speed_slider
       /\ timer_active' => timer_interval' = speed_slider'
       /\ (last'.op = "toggle_timer" /\ ~timer_active) =>
             (timer_active' /\ timer_interval' = speed_slider)
       /\ (last'.op = "change_speed" /\ timer_active) =>
             (timer_active' /\ timer_interval' = speed_slider')
       /\ (last'.op = "change_speed" /\ ~timer_active) =>
             (~timer_active' /\ timer_interval' = timer_interval)
       /\ last'.op = "update_state" => timer_active]_vars

\* the slider moved to its minimum while the timer runs
C19_Witness ==
    /\ last.op = "change_speed"
    /\ timer_active
    /\ speed_slider = SliderMin
    /\ timer_interval = SliderMin

\* C20: clear and randomize leave the timer's running state unchanged; an
\* advance that fires right after a clear finds the timer active and the grid
\* all-dead, and an advance of the all-dead grid leaves it all-dead and
\* records a live count of 0.
C20_ClearKeepsTimer ==
    [][/\ last'.op \in {"clear_grid", "randomize_grid"} =>
             (timer_active' = timer_active /\ timer_interval' = timer_interval)
       /\ (last.op = "clear_grid" /\ last'.op = "update_state") =>
             (timer_active' /\ AllDead(grid) /\ live_history' = <<0, 0>>)
       /\ (last'.op = "update_state" /\ AllDead(grid)) =>
             (AllDead(grid') /\ live_history'[Len(live_history')] = 0)]_vars

\* a clear of a grid with alive cells while the timer runs
C20_Witness ==
    /\ last.op = "clear_grid"
    /\ timer_active
    /\ ~AllDead(last.pre)
    /\ AllDead(grid)

====
